---- MODULE Spec2Model ----
(***************************************************************************)
(* Model of the Diffusion Grammar Checker plugin (src/main.ts): the edit   *)
(* tracker (keyup and click handlers), the content classifier              *)
(* (isProseContent) and the correction dispatcher (checkAndCorrectLine,    *)
(* correctParagraph), together with the host editor, the host timers and   *)
(* the remote correction client they talk to.                              *)
(*                                                                         *)
(* A text is a sequence of one-character strings, so that trimming,        *)
(* prefix tests and the regular expressions of the classifier are computed *)
(* character by character as the JavaScript does.                          *)
(*                                                                         *)
(* One Markdown view with an editor is active throughout, so the listeners *)
(* never return at their activeView and editor tests.  saveSettings is one *)
(* step: the field is assigned, the data saved and the client initialised. *)
(* The system prompt is left out of the settings: it is passed to the      *)
(* remote call and read nowhere else.  checkEditedContent is left out: no  *)
(* code calls it.                                                          *)
(***************************************************************************)
EXTENDS Integers, Sequences, FiniteSets, TLC

(***************************************************************************)
(* Bounds of the model.                                                    *)
(***************************************************************************)
NumLines == 2
MaxRequests == 2
MaxTimers == 2
MaxLineLen == 5

(***************************************************************************)
(* String primitives of JavaScript used by main.ts.                        *)
(***************************************************************************)
\* The backtick character, which the TLA+ lexer does not accept in a string
Backtick == "BACKTICK"

\* \s of a JavaScript regular expression and the characters String.trim strips
SpaceChars == {" ", "\t"}

\* \d of a JavaScript regular expression
DigitChars == {"0", "1", "2", "3", "4", "5", "6", "7", "8", "9"}

IsSpace(c) == c \in SpaceChars

RECURSIVE TrimStart(_)
TrimStart(s) ==
  IF s = <<>> THEN <<>>
  ELSE IF IsSpace(Head(s)) THEN TrimStart(Tail(s)) ELSE s

RECURSIVE TrimEnd(_)
TrimEnd(s) ==
  IF s = <<>> THEN <<>>
  ELSE IF IsSpace(s[Len(s)]) THEN TrimEnd(SubSeq(s, 1, Len(s) - 1)) ELSE s

\* String.prototype.trim
Trim(s) == TrimEnd(TrimStart(s))

\* String.prototype.startsWith
StartsWith(s, p) == Len(s) >= Len(p) /\ SubSeq(s, 1, Len(p)) = p

\* (text.match(/\|/g) || []).length for the character c
RECURSIVE CountChar(_, _)
CountChar(s, c) ==
  IF s = <<>> THEN 0
  ELSE (IF Head(s) = c THEN 1 ELSE 0) + CountChar(Tail(s), c)

\* Index reached from position i of s (1-based) after the longest run of
\* characters of the class cls: the greedy match of cls* at i.
RECURSIVE SkipWhile(_, _, _)
SkipWhile(s, i, cls) ==
  IF i <= Len(s) /\ s[i] \in cls THEN SkipWhile(s, i + 1, cls) ELSE i

\* Position after an optional single character c at i: the match of c? at i.
SkipOpt(s, i, c) == IF i <= Len(s) /\ s[i] = c THEN i + 1 ELSE i

\* /^\s{4,}/
MatchIndentedCode(s) == SkipWhile(s, 1, SpaceChars) - 1 >= 4

\* /^\s*\|?\s*:?-+:?\s*\|/
MatchTableSeparator(s) ==
  LET i1 == SkipWhile(s, 1, SpaceChars)
      i2 == SkipOpt(s, i1, "|")
      i3 == SkipWhile(s, i2, SpaceChars)
      i4 == SkipOpt(s, i3, ":")
      i5 == SkipWhile(s, i4, {"-"})
      i6 == SkipOpt(s, i5, ":")
      i7 == SkipWhile(s, i6, SpaceChars)
  IN  i5 > i4 /\ i7 <= Len(s) /\ s[i7] = "|"

\* /^\s*[-*+]\s+/
MatchUnorderedList(s) ==
  LET i1 == SkipWhile(s, 1, SpaceChars)
  IN  /\ i1 <= Len(s) /\ s[i1] \in {"-", "*", "+"}
      /\ SkipWhile(s, i1 + 1, SpaceChars) > i1 + 1

\* /^\s*\d+\.\s+/
MatchOrderedList(s) ==
  LET i1 == SkipWhile(s, 1, SpaceChars)
      i2 == SkipWhile(s, i1, DigitChars)
  IN  /\ i2 > i1
      /\ i2 <= Len(s) /\ s[i2] = "."
      /\ SkipWhile(s, i2 + 1, SpaceChars) > i2 + 1

\* /^\s*\[[ x]\]\s+/i
MatchTaskList(s) ==
  LET i1 == SkipWhile(s, 1, SpaceChars)
  IN  /\ i1 + 2 <= Len(s)
      /\ s[i1] = "[" /\ s[i1 + 1] \in {" ", "x", "X"} /\ s[i1 + 2] = "]"
      /\ SkipWhile(s, i1 + 3, SpaceChars) > i1 + 3

\* /^#+\s+/
MatchHeading(s) ==
  LET i1 == SkipWhile(s, 1, {"#"})
  IN  i1 > 1 /\ SkipWhile(s, i1, SpaceChars) > i1

\* Index of the first occurrence of c in s at or after i, Len(s) + 1 if none:
\* the end of the match of [^c]* at i.
RECURSIVE SkipUntil(_, _, _)
SkipUntil(s, i, c) ==
  IF i <= Len(s) /\ s[i] # c THEN SkipUntil(s, i + 1, c) ELSE i

\* /^\s*!?\[[^\]]*\]\([^)]*\)\s*$/
MatchLinkOnly(s) ==
  LET i1 == SkipWhile(s, 1, SpaceChars)
      i2 == SkipOpt(s, i1, "!")
      i3 == SkipUntil(s, i2 + 1, "]")
      i4 == SkipUntil(s, i3 + 2, ")")
  IN  /\ i2 <= Len(s) /\ s[i2] = "["
      /\ i3 <= Len(s)
      /\ i3 + 1 <= Len(s) /\ s[i3 + 1] = "("
      /\ i4 <= Len(s)
      /\ SkipWhile(s, i4 + 1, SpaceChars) = Len(s) + 1

(***************************************************************************)
(* The content classifier.  st is the settings record read at the call.    *)
(***************************************************************************)
isProseContent(text, st) ==
  LET trimmedText == Trim(text)
  IN  IF Len(trimmedText) = 0 THEN FALSE
      ELSE IF /\ ~st.checkCodeBlocks
              /\ \/ StartsWith(trimmedText, <<Backtick, Backtick, Backtick>>)
                 \/ StartsWith(trimmedText, <<"~", "~", "~">>)
                 \/ MatchIndentedCode(trimmedText)
                 \/ StartsWith(trimmedText, <<"\t">>)
           THEN FALSE
      ELSE IF /\ ~st.checkTables
              /\ \/ CountChar(trimmedText, "|") > 1
                 \/ MatchTableSeparator(trimmedText)
           THEN FALSE
      ELSE IF /\ ~st.checkLists
              /\ \/ MatchUnorderedList(trimmedText)
                 \/ MatchOrderedList(trimmedText)
                 \/ MatchTaskList(trimmedText)
           THEN FALSE
      ELSE IF MatchHeading(trimmedText) THEN FALSE
      ELSE IF MatchLinkOnly(trimmedText) THEN FALSE
      ELSE IF trimmedText = <<"-", "-", "-">> THEN FALSE
      ELSE TRUE

(***************************************************************************)
(* Inputs of the model.                                                    *)
(***************************************************************************)
\* Line indices of the open document (zero-based, as in the editor)
Lines == 0 .. (NumLines - 1)

\* Texts the user puts on a line: an empty line and a table row, with and
\* without a trailing space.  A table row is prose exactly when checkTables
\* is set, so the same texts serve as prose and as non-prose.
UserTexts == { <<>>, <<"|", "|", " ">>, <<"|", "|">> }

\* Message contents the remote client returns: nothing, and the table row
\* with a space before or after it
ResponseTexts == { <<>>, <<"|", "|", " ">>, <<" ", "|", "|">> }

\* Characters the user types into a line when the classifier is exercised:
\* the heading and fence characters, both kinds of whitespace and a letter
TypedChars == { "#", " ", "\t", Backtick, "~", "a" }

\* API keys the user enters in the settings tab ("" clears the key)
ApiKeys == { "", "sk" }

\* this.openai before a client was constructed
Null == "null"

(***************************************************************************)
(* State.                                                                  *)
(***************************************************************************)
VARIABLES
  settings,             \* DiffusionGrammarSettings (the system prompt left out)
  openai,               \* Null, or the API key the client was constructed with
  isProcessing,         \* global in-flight flag
  lastEditedContent,    \* Map line -> tracked text, a function on a set of lines
  lastCheckedLines,     \* cooldown set
  lastCursorLine,       \* remembered cursor line, -1 initially
  processingLines,      \* keys of the Map processingLines (values are all true)
  processingStatusItem, \* TRUE iff the processing indicator is shown
  doc,                  \* editor: line -> text
  cursor,               \* editor: line of the cursor
  requests,             \* remote calls awaiting their response, in issue order
  timers,               \* pending setTimeout callbacks, in scheduling order
  log                   \* command run, calls made and answers received by the
                        \* handler run last

vars == << settings, openai, isProcessing, lastEditedContent, lastCheckedLines,
           lastCursorLine, processingLines, processingStatusItem, doc, cursor,
           requests, timers, log >>

DEFAULT_SETTINGS ==
  [ apiKey |-> "", enableAutoCorrect |-> TRUE,
    checkTables |-> FALSE, checkCodeBlocks |-> FALSE, checkLists |-> TRUE ]

\* An entry of log: a call (or the answer to one) with the line and text it
\* carries
Entry(op, line, text) == [ op |-> op, line |-> line, text |-> text ]

\* The fields the dispatcher writes, gathered so that the handlers can be
\* composed as functions of them
Plugin ==
  [ isProcessing |-> isProcessing, processingLines |-> processingLines,
    processingStatusItem |-> processingStatusItem,
    lastCheckedLines |-> lastCheckedLines, lastEditedContent |-> lastEditedContent,
    lastCursorLine |-> lastCursorLine, doc |-> doc,
    requests |-> requests, timers |-> timers, log |-> log ]

Commit(p) ==
  /\ Len(p.requests) <= MaxRequests
  /\ Len(p.timers) <= MaxTimers
  /\ isProcessing' = p.isProcessing
  /\ processingLines' = p.processingLines
  /\ processingStatusItem' = p.processingStatusItem
  /\ lastCheckedLines' = p.lastCheckedLines
  /\ lastEditedContent' = p.lastEditedContent
  /\ lastCursorLine' = p.lastCursorLine
  /\ doc' = p.doc
  /\ requests' = p.requests
  /\ timers' = p.timers
  /\ log' = p.log

\* Map.set and Map.delete on lastEditedContent
MapSet(m, k, v) == [ l \in (DOMAIN m) \cup {k} |-> IF l = k THEN v ELSE m[l] ]
MapDelete(m, k) == [ l \in (DOMAIN m) \ {k} |-> m[l] ]

\* Removal of the i-th element of a sequence
RemoveAt(q, i) == SubSeq(q, 1, i - 1) \o SubSeq(q, i + 1, Len(q))

(***************************************************************************)
(* The correction dispatcher.                                              *)
(***************************************************************************)
\* correctParagraph up to its await: the preconditions, the flags, the
\* processing indicator and the remote call
\* The call itself is logged, whatever it goes on to do
correctParagraph(p, lineNumber, text) ==
  LET q == [ p EXCEPT !.log = Append(@, Entry("correctParagraph", lineNumber, text)) ]
  IN  IF openai = Null
        THEN [ q EXCEPT !.log = Append(@, Entry("NoticeApiKey", -1, <<>>)) ]
      ELSE IF Len(Trim(text)) = 0
        THEN q
      ELSE [ q EXCEPT !.isProcessing = TRUE,
                      !.processingLines = @ \cup {lineNumber},
                      !.processingStatusItem = TRUE,
                      !.requests = Append(@, [ lineNumber |-> lineNumber, text |-> text ]),
                      !.log = Append(@, Entry("create", lineNumber, text)) ]

\* A variant that writes the returned text back as it came
correctParagraphTryNoTrim(p, lineNumber, text, content) ==
  IF content # <<>> /\ content # text
    THEN [ p EXCEPT !.doc[lineNumber] = content,
                    !.log = Append(@, Entry("setLine", lineNumber, content)) ]
    ELSE p

\* The try block of correctParagraph after the await resolved with content
correctParagraphTry(p, lineNumber, text, content) ==
  LET correctedText == Trim(content)
  IN  IF correctedText # <<>> /\ correctedText # text
        THEN [ p EXCEPT !.doc[lineNumber] = correctedText,
                        !.log = Append(@, Entry("setLine", lineNumber, correctedText)) ]
        ELSE p

\* A variant that swallows the failure
correctParagraphCatchSilent(p, lineNumber) == p

\* The catch block of correctParagraph
correctParagraphCatch(p, lineNumber) ==
  [ p EXCEPT !.log = Append(@, Entry("NoticeFailed", -1, <<>>)) ]

\* A variant that leaves the per-line marker behind
correctParagraphFinallyKeepsLine(p, lineNumber) ==
  [ p EXCEPT !.isProcessing = FALSE,
             !.processingStatusItem = FALSE ]

\* The finally block of correctParagraph
correctParagraphFinally(p, lineNumber) ==
  [ p EXCEPT !.isProcessing = FALSE,
             !.processingLines = @ \ {lineNumber},
             !.processingStatusItem = FALSE ]

\* A variant that does not classify the text again
checkAndCorrectLineUnchecked(p, lineNumber, text) ==
  LET q == [ p EXCEPT !.log = Append(@, Entry("checkAndCorrectLine", lineNumber, text)) ]
  IN  correctParagraph(
        [ q EXCEPT !.lastCheckedLines = @ \cup {lineNumber},
                   !.timers = Append(@, [ kind |-> "cooldown", line |-> lineNumber ]) ],
        lineNumber, text)

\* The call itself is logged, whatever it goes on to do
checkAndCorrectLine(p, lineNumber, text) ==
  LET q == [ p EXCEPT !.log = Append(@, Entry("checkAndCorrectLine", lineNumber, text)) ]
  IN  IF ~isProseContent(text, settings)
        THEN q
        ELSE correctParagraph(
               [ q EXCEPT !.lastCheckedLines = @ \cup {lineNumber},
                          !.timers = Append(@, [ kind |-> "cooldown", line |-> lineNumber ]) ],
               lineNumber, text)

(***************************************************************************)
(* The host editor: the user changes the document and moves the cursor.    *)
(***************************************************************************)
UserEdit(text) ==
  /\ doc[cursor] # text
  /\ doc' = [ doc EXCEPT ![cursor] = text ]
  /\ log' = << >>
  /\ UNCHANGED << settings, openai, isProcessing, lastEditedContent,
                  lastCheckedLines, lastCursorLine, processingLines,
                  processingStatusItem, cursor, requests, timers >>

UserMoveCursor(line) ==
  /\ cursor # line
  /\ cursor' = line
  /\ log' = << >>
  /\ UNCHANGED << settings, openai, isProcessing, lastEditedContent,
                  lastCheckedLines, lastCursorLine, processingLines,
                  processingStatusItem, doc, requests, timers >>

(***************************************************************************)
(* The edit tracker: the keyup and click listeners of onload.              *)
(***************************************************************************)
\* A variant that leaves the tracked entry in the map
keyupEnterKeepsEntry(p, currentLine, currentLineText) ==
  IF currentLine > 0
    THEN LET previousLineText == doc[currentLine - 1]
         IN  IF currentLineText = <<>> /\ previousLineText # <<>>
               THEN IF /\ (currentLine - 1) \in DOMAIN p.lastEditedContent
                       /\ p.lastEditedContent[currentLine - 1] # <<>>
                      THEN checkAndCorrectLine(p, currentLine - 1,
                                               p.lastEditedContent[currentLine - 1])
                      ELSE p
               ELSE p
    ELSE p

\* The Enter branch of the keyup listener
keyupEnter(p, currentLine, currentLineText) ==
  IF currentLine > 0
    THEN LET previousLineText == doc[currentLine - 1]
         IN  IF currentLineText = <<>> /\ previousLineText # <<>>
               THEN IF /\ (currentLine - 1) \in DOMAIN p.lastEditedContent
                       /\ p.lastEditedContent[currentLine - 1] # <<>>
                      THEN LET editedText == p.lastEditedContent[currentLine - 1]
                               q == checkAndCorrectLine(p, currentLine - 1, editedText)
                           IN  [ q EXCEPT !.lastEditedContent = MapDelete(@, currentLine - 1) ]
                      ELSE p
               ELSE p
    ELSE p

\* The keyup listener; isEnter is evt.key === "Enter"
keyup(p, isEnter) ==
  IF ~settings.enableAutoCorrect \/ p.isProcessing
    THEN p
    ELSE LET currentLine == cursor
             currentLineText == doc[currentLine]
             tracked == IF Len(Trim(currentLineText)) > 0
                          THEN [ p EXCEPT !.lastEditedContent =
                                            MapSet(@, currentLine, currentLineText) ]
                          ELSE p
             moved == [ tracked EXCEPT !.lastCursorLine = currentLine ]
         IN  IF isEnter THEN keyupEnter(moved, currentLine, currentLineText)
                        ELSE moved

KeyUp(isEnter) ==
  /\ Commit(keyup([ Plugin EXCEPT !.log = << >> ], isEnter))
  /\ UNCHANGED << settings, openai, cursor >>

\* The click listener up to its setTimeout
click(p) ==
  IF ~settings.enableAutoCorrect \/ p.isProcessing
    THEN p
    ELSE [ p EXCEPT !.timers = Append(@, [ kind |-> "click", line |-> -1 ]) ]

Click ==
  /\ Commit(click([ Plugin EXCEPT !.log = << >> ]))
  /\ UNCHANGED << settings, openai, cursor >>

\* The callback the click listener defers by 50 ms
clickTimeout(p) ==
  LET currentLine == cursor
      left ==
        IF p.lastCursorLine # -1 /\ p.lastCursorLine # currentLine
          THEN IF /\ p.lastCursorLine \in DOMAIN p.lastEditedContent
                  /\ p.lastEditedContent[p.lastCursorLine] # <<>>
                  /\ isProseContent(p.lastEditedContent[p.lastCursorLine], settings)
                 THEN LET lastLineText == p.lastEditedContent[p.lastCursorLine]
                          q == checkAndCorrectLine(p, p.lastCursorLine, lastLineText)
                      IN  [ q EXCEPT !.lastEditedContent = MapDelete(@, p.lastCursorLine) ]
                 ELSE p
          ELSE p
  IN  [ left EXCEPT !.lastCursorLine = currentLine ]

\* A variant that empties the cooldown set
cooldownTimeoutClears(p, lineNumber) ==
  [ p EXCEPT !.lastCheckedLines = {} ]

\* The callback checkAndCorrectLine defers by 5000 ms
cooldownTimeout(p, lineNumber) ==
  [ p EXCEPT !.lastCheckedLines = @ \ {lineNumber} ]

\* A pending timer may fire when every timer due before it has fired: the
\* click callbacks (50 ms) in scheduling order, a cooldown callback (5000 ms)
\* after everything scheduled before it.
MayFire(i) ==
  IF timers[i].kind = "click"
    THEN \A j \in 1 .. (i - 1) : timers[j].kind # "click"
    ELSE i = 1

TimerFire(i) ==
  /\ i \in DOMAIN timers
  /\ MayFire(i)
  /\ LET p == [ Plugin EXCEPT !.timers = RemoveAt(@, i), !.log = << >> ]
     IN  IF timers[i].kind = "click"
           THEN Commit(clickTimeout(p))
           ELSE Commit(cooldownTimeout(p, timers[i].line))
  /\ UNCHANGED << settings, openai, cursor >>

(***************************************************************************)
(* The command "Correct current paragraph".                                *)
(***************************************************************************)
\* A variant that leaves non-prose lines alone
editorCallbackProseOnly(p) ==
  LET line == cursor
      text == doc[line]
      q == [ p EXCEPT !.log = Append(@, Entry("editorCallback", line, text)) ]
  IN  IF text # <<>> /\ isProseContent(text, settings)
        THEN correctParagraph(q, line, text)
        ELSE q

\* The invocation itself is logged, whatever it goes on to do
editorCallback(p) ==
  LET line == cursor
      text == doc[line]
      q == [ p EXCEPT !.log = Append(@, Entry("editorCallback", line, text)) ]
  IN  IF text # <<>> THEN correctParagraph(q, line, text) ELSE q

Command ==
  /\ Commit(editorCallback([ Plugin EXCEPT !.log = << >> ]))
  /\ UNCHANGED << settings, openai, cursor >>

(***************************************************************************)
(* The remote correction client answers the i-th outstanding call.         *)
(***************************************************************************)
Resolve(i, content) ==
  /\ i \in DOMAIN requests
  /\ LET r == requests[i]
         p == [ Plugin EXCEPT !.requests = RemoveAt(@, i),
                              !.log = << Entry("resolved", r.lineNumber, content) >> ]
     IN  Commit(correctParagraphFinally(
                  correctParagraphTry(p, r.lineNumber, r.text, content),
                  r.lineNumber))
  /\ UNCHANGED << settings, openai, cursor >>

Reject(i) ==
  /\ i \in DOMAIN requests
  /\ LET r == requests[i]
         p == [ Plugin EXCEPT !.requests = RemoveAt(@, i),
                              !.log = << Entry("rejected", r.lineNumber, <<>>) >> ]
     IN  Commit(correctParagraphFinally(
                  correctParagraphCatch(p, r.lineNumber),
                  r.lineNumber))
  /\ UNCHANGED << settings, openai, cursor >>

(***************************************************************************)
(* Settings: the status bar item, the settings tab and saveSettings.       *)
(***************************************************************************)
\* The client after initializeOpenAI ran with the settings st
initializeOpenAI(client, st) ==
  IF st.apiKey # "" THEN st.apiKey ELSE client

\* saveSettings: the data is saved, the client initialised, the status bar
\* updated
saveSettings(st) ==
  /\ settings' = st
  /\ openai' = initializeOpenAI(openai, st)

\* An onChange callback of the settings tab: the field is assigned and
\* saveSettings is called
SettingChange(field, value) ==
  /\ settings[field] # value
  /\ saveSettings([ settings EXCEPT ![field] = value ])
  /\ log' = << >>
  /\ UNCHANGED << isProcessing, lastEditedContent, lastCheckedLines,
                  lastCursorLine, processingLines, processingStatusItem, doc,
                  cursor, requests, timers >>

SetApiKey == \E value \in ApiKeys : SettingChange("apiKey", value)

SetEnableAutoCorrect == \E value \in BOOLEAN : SettingChange("enableAutoCorrect", value)

SetCheckTables == \E value \in BOOLEAN : SettingChange("checkTables", value)

\* The click listener of the status bar item
StatusBarClick ==
  /\ saveSettings([ settings EXCEPT !.enableAutoCorrect = ~@ ])
  /\ log' = << Entry("NoticeAutoCorrect", -1, <<>>) >>
  /\ UNCHANGED << isProcessing, lastEditedContent, lastCheckedLines,
                  lastCursorLine, processingLines, processingStatusItem, doc,
                  cursor, requests, timers >>

(***************************************************************************)
(* Initial states: the plugin after onload, which merges the stored        *)
(* settings over DEFAULT_SETTINGS and constructs the client if a key is    *)
(* stored.                                                                 *)
(***************************************************************************)
Loaded(st) ==
  /\ settings = st
  /\ openai = initializeOpenAI(Null, st)
  /\ isProcessing = FALSE
  /\ lastEditedContent = << >>
  /\ lastCheckedLines = {}
  /\ lastCursorLine = -1
  /\ processingLines = {}
  /\ processingStatusItem = FALSE
  /\ doc = [ l \in Lines |-> <<>> ]
  /\ cursor = 0
  /\ requests = << >>
  /\ timers = << >>
  /\ log = << >>

\* Any stored API key, auto-correct flag and table toggle
Init ==
  \E key \in ApiKeys : \E enable \in BOOLEAN : \E tables \in BOOLEAN :
    Loaded([ DEFAULT_SETTINGS EXCEPT !.apiKey = key,
                                     !.enableAutoCorrect = enable,
                                     !.checkTables = tables ])

\* A fresh installation: nothing stored
InitFresh == Loaded(DEFAULT_SETTINGS)

\* A key is stored and table checking is on or off
InitKeyStored ==
  \E tables \in BOOLEAN :
    Loaded([ DEFAULT_SETTINGS EXCEPT !.apiKey = "sk", !.checkTables = tables ])

(***************************************************************************)
(* Specifications.  Spec is a session in which the settings stay as they   *)
(* were loaded; the others add the settings the user changes meanwhile.    *)
(***************************************************************************)
Next ==
  \/ \E text \in UserTexts : UserEdit(text)
  \/ \E line \in Lines : UserMoveCursor(line)
  \/ \E isEnter \in BOOLEAN : KeyUp(isEnter)
  \/ Click
  \/ \E i \in 1 .. MaxTimers : TimerFire(i)
  \/ Command
  \/ \E i \in 1 .. MaxRequests : \E content \in ResponseTexts : Resolve(i, content)
  \/ \E i \in 1 .. MaxRequests : Reject(i)

Spec == Init /\ [][Next]_vars

NextApiKey == Next \/ SetApiKey

SpecApiKey == InitFresh /\ [][NextApiKey]_vars

NextTables == Next \/ SetCheckTables

SpecTables == InitKeyStored /\ [][NextTables]_vars

NextEnable == Next \/ SetEnableAutoCorrect \/ StatusBarClick

SpecEnable == InitKeyStored /\ [][NextEnable]_vars

(***************************************************************************)
(* A session without a stored API key: the triggers mark lines as checked  *)
(* and schedule their timers, correctParagraph stops at its notice and no  *)
(* remote call is made.  SpecFair adds the host's scheduling: a callback   *)
(* handed to setTimeout is run once its delay has passed, so the timer due *)
(* first fires.                                                            *)
(***************************************************************************)
InitNoKey ==
  \E tables \in BOOLEAN :
    Loaded([ DEFAULT_SETTINGS EXCEPT !.checkTables = tables ])

NextNoKey ==
  \/ \E text \in UserTexts : UserEdit(text)
  \/ \E line \in Lines : UserMoveCursor(line)
  \/ \E isEnter \in BOOLEAN : KeyUp(isEnter)
  \/ Click
  \/ \E i \in 1 .. MaxTimers : TimerFire(i)
  \/ Command

SpecFair ==
  /\ InitNoKey /\ [][NextNoKey]_vars
  /\ WF_vars(TimerFire(1))

(***************************************************************************)
(* The classifier on its own: the user types a line character by           *)
(* character and isProseContent is called with the raw text of the line,   *)
(* as the click callback and checkAndCorrectLine call it with the text     *)
(* that editor.getLine returned.  The call and the value it returned are   *)
(* logged.                                                                 *)
(***************************************************************************)
UserType(c) ==
  /\ Len(doc[cursor]) < MaxLineLen
  /\ doc' = [ doc EXCEPT ![cursor] = Append(@, c) ]
  /\ log' = << >>
  /\ UNCHANGED << settings, openai, isProcessing, lastEditedContent,
                  lastCheckedLines, lastCursorLine, processingLines,
                  processingStatusItem, cursor, requests, timers >>

Classify ==
  /\ log' = << Entry("isProseContent", cursor, doc[cursor]),
               Entry(IF isProseContent(doc[cursor], settings) THEN "true" ELSE "false",
                     cursor, <<>>) >>
  /\ UNCHANGED << settings, openai, isProcessing, lastEditedContent,
                  lastCheckedLines, lastCursorLine, processingLines,
                  processingStatusItem, doc, cursor, requests, timers >>

\* Any stored combination of the three content toggles
InitClassifier ==
  \E code \in BOOLEAN : \E tables \in BOOLEAN : \E lists \in BOOLEAN :
    Loaded([ DEFAULT_SETTINGS EXCEPT !.checkCodeBlocks = code,
                                     !.checkTables = tables,
                                     !.checkLists = lists ])

NextClassifier ==
  \/ \E c \in TypedChars : UserType(c)
  \/ Classify

SpecClassifier == InitClassifier /\ [][NextClassifier]_vars

(***************************************************************************)
(* Reading the log of a step.                                              *)
(***************************************************************************)
\* The entries of a log with operation op
Made(lg, op) == { k \in DOMAIN lg : lg[k].op = op }

Notices(lg) ==
  { k \in DOMAIN lg : lg[k].op \in { "NoticeApiKey", "NoticeFailed", "NoticeAutoCorrect" } }

\* The handler run last received the answer to a remote call
Answered(lg) == lg # << >> /\ lg[1].op \in { "resolved", "rejected" }

\* The pending cooldown callbacks among the timers q
CooldownTimers(q) == SelectSeq(q, LAMBDA e : e.kind = "cooldown")

(***************************************************************************)
(* C1.  At most one remote correction request is outstanding at any time.  *)
(***************************************************************************)
C1_AtMostOneOutstanding == Len(requests) <= 1

(***************************************************************************)
(* C2.  Two requests for the same line are never outstanding together.     *)
(***************************************************************************)
C2_OneRequestPerLine ==
  \A i, j \in DOMAIN requests :
    i # j => requests[i].lineNumber # requests[j].lineNumber

(***************************************************************************)
(* C3.  While a line is in the cooldown set, no automatic trigger (a step  *)
(* that calls checkAndCorrectLine for the line) issues a remote request    *)
(* for it.                                                                 *)
(***************************************************************************)
C3_CooldownSuppresses ==
  [][ \A k \in Made(log', "checkAndCorrectLine") :
        log'[k].line \in lastCheckedLines
          => \A c \in Made(log', "create") : log'[c].line # log'[k].line ]_vars

(***************************************************************************)
(* C4.  When the remote call of a request resolves or rejects, the global  *)
(* flag is cleared, the per-line marker of the request's line is removed   *)
(* and the processing indicator is hidden.                                 *)
(***************************************************************************)
C4_CleanupOnEveryExit ==
  [][ Answered(log')
        => /\ isProcessing' = FALSE
           /\ log'[1].line \notin processingLines'
           /\ processingStatusItem' = FALSE ]_vars

\* A request was rejected and the flags are clear
C4_Witness ==
  /\ log # << >> /\ log[1].op = "rejected"
  /\ ~isProcessing /\ processingLines = {}

(***************************************************************************)
(* C5.  When the remote call of a request fails, no line of the document   *)
(* changes, exactly one notice is emitted, no remote call is made again    *)
(* and the settings (auto-correct among them) stay as they are.            *)
(***************************************************************************)
C5_FailureHandled ==
  [][ (log' # << >> /\ log'[1].op = "rejected")
        => /\ doc' = doc
           /\ Made(log', "setLine") = {}
           /\ Cardinality(Notices(log')) = 1
           /\ Made(log', "NoticeFailed") # {}
           /\ Made(log', "create") = {}
           /\ \E i \in DOMAIN requests : requests' = RemoveAt(requests, i)
           /\ settings' = settings ]_vars

\* A request for a non-empty line was rejected while auto-correct is on
C5_Witness ==
  /\ log # << >> /\ log[1].op = "rejected"
  /\ doc[log[1].line] # <<>>
  /\ settings.enableAutoCorrect

(***************************************************************************)
(* C6.  Whenever no API key is present in the settings, a call of          *)
(* correctParagraph makes no remote request: it emits the notice and       *)
(* leaves isProcessing and processingLines alone.                          *)
(***************************************************************************)
C6_NoKeyNoRequest ==
  [][ (settings.apiKey = "" /\ Made(log', "correctParagraph") # {})
        => /\ Made(log', "create") = {}
           /\ requests' = requests
           /\ Made(log', "NoticeApiKey") # {}
           /\ isProcessing' = isProcessing
           /\ processingLines' = processingLines ]_vars

(***************************************************************************)
(* C7.  If the remote client returns text identical to the text that was   *)
(* submitted, no line of the document is changed.                          *)
(***************************************************************************)
C7_IdenticalResponseNoChange ==
  [][ \A i \in DOMAIN requests :
        ( /\ log' # << >> /\ log'[1].op = "resolved"
          /\ requests' = RemoveAt(requests, i)
          /\ log'[1].line = requests[i].lineNumber
          /\ log'[1].text = requests[i].text )
          => doc' = doc ]_vars

(***************************************************************************)
(* C8.  When the remote call of a request (lineNumber, text) succeeds, the *)
(* line at lineNumber is set to the trimmed returned text if that is       *)
(* non-empty and differs from text, and the document is unchanged          *)
(* otherwise; no other line is written and no notice is emitted.           *)
(***************************************************************************)
C8_WriteBackOnSuccess ==
  [][ \A i \in DOMAIN requests :
        ( /\ log' # << >> /\ log'[1].op = "resolved"
          /\ requests' = RemoveAt(requests, i)
          /\ log'[1].line = requests[i].lineNumber )
          => LET lineNumber == requests[i].lineNumber
                 text == requests[i].text
                 returned == Trim(log'[1].text)
             IN  /\ IF returned # <<>> /\ returned # text
                      THEN doc' = [ doc EXCEPT ![lineNumber] = returned ]
                      ELSE doc' = doc
                 /\ Notices(log') = {} ]_vars

\* A correction was written back: the line holds the trimmed returned text
C8_Witness ==
  /\ Len(log) = 2 /\ log[1].op = "resolved" /\ log[2].op = "setLine"
  /\ log[1].text # Trim(log[1].text)
  /\ doc[log[2].line] = Trim(log[1].text)

(***************************************************************************)
(* C9.  A call of checkAndCorrectLine with a text that is not prose under  *)
(* the settings current at the call makes no remote call, and leaves the   *)
(* cooldown set, the in-flight flags and the cooldown timers as they are.  *)
(***************************************************************************)
C9_NonProseNeverSent ==
  [][ \A k \in Made(log', "checkAndCorrectLine") :
        ~isProseContent(log'[k].text, settings')
          => /\ Made(log', "create") = {}
             /\ requests' = requests
             /\ lastCheckedLines' = lastCheckedLines
             /\ isProcessing' = isProcessing
             /\ processingLines' = processingLines
             /\ CooldownTimers(timers') = CooldownTimers(timers) ]_vars

\* checkAndCorrectLine was called with a tracked table row while table
\* checking is off
C9_Witness ==
  /\ Made(log, "checkAndCorrectLine") # {}
  /\ \A k \in Made(log, "checkAndCorrectLine") : ~isProseContent(log[k].text, settings)
  /\ ~settings.checkTables

(***************************************************************************)
(* C10.  The command, invoked with the cursor on a line whose trimmed text *)
(* is non-empty and with a client constructed, issues a remote request for *)
(* that line and its current text, whatever the classifier says of the     *)
(* line, whether or not the line is in the cooldown set and whether or not *)
(* auto-correct is enabled.                                                *)
(***************************************************************************)
C10_ManualOverride ==
  [][ ( /\ Made(log', "editorCallback") # {}
        /\ Len(Trim(doc[cursor])) > 0
        /\ openai # Null )
        => /\ requests' = Append(requests, [ lineNumber |-> cursor, text |-> doc[cursor] ])
           /\ Made(log', "create") # {} ]_vars

\* The command issued a request for a line that is not prose, with
\* auto-correct disabled
C10_Witness ==
  /\ Made(log, "editorCallback") # {} /\ Made(log, "create") # {}
  /\ ~isProseContent(log[1].text, settings)
  /\ ~settings.enableAutoCorrect

\* A step of the keyup listener, of the click listener, and of the callback
\* the click listener deferred
KeyUpStep == \E isEnter \in BOOLEAN : KeyUp(isEnter)

ClickTimeoutStep ==
  \E i \in DOMAIN timers : timers[i].kind = "click" /\ TimerFire(i)

CooldownTimeoutStep ==
  \E i \in DOMAIN timers : timers[i].kind = "cooldown" /\ TimerFire(i)

(***************************************************************************)
(* C11.  Whenever auto-correct is disabled or isProcessing is true, a      *)
(* keyup event, a click event and the callback a click deferred leave      *)
(* lastEditedContent and lastCursorLine as they are and call               *)
(* checkAndCorrectLine for no line.                                        *)
(***************************************************************************)
C11_TrackerInert ==
  [][ ( /\ ~settings.enableAutoCorrect \/ isProcessing
        /\ KeyUpStep \/ Click \/ ClickTimeoutStep )
        => /\ lastEditedContent' = lastEditedContent
           /\ lastCursorLine' = lastCursorLine
           /\ Made(log', "checkAndCorrectLine") = {} ]_vars

\* The entries of a log are calls of op for the line with the text
Called(lg, op, line, text) ==
  { k \in DOMAIN lg : lg[k] = Entry(op, line, text) }

(***************************************************************************)
(* C12.  With auto-correct enabled and no correction in flight, when the   *)
(* plugin sees the cursor on a line other than the remembered one (in a    *)
(* keyup event or in the callback a click deferred) and the remembered     *)
(* line has tracked content that is prose, checkAndCorrectLine is called   *)
(* for the remembered line with its tracked text and the tracked entry is  *)
(* removed; in every case the remembered line becomes the cursor's line.   *)
(***************************************************************************)
C12_CursorLeaveTrigger ==
  [][ ( /\ settings.enableAutoCorrect /\ ~isProcessing
        /\ KeyUpStep \/ ClickTimeoutStep )
        => /\ lastCursorLine' = cursor
           /\ ( /\ lastCursorLine # -1 /\ lastCursorLine # cursor
                /\ lastCursorLine \in DOMAIN lastEditedContent
                /\ isProseContent(lastEditedContent[lastCursorLine], settings) )
                => /\ Called(log', "checkAndCorrectLine", lastCursorLine,
                             lastEditedContent[lastCursorLine]) # {}
                   /\ lastCursorLine \notin DOMAIN lastEditedContent' ]_vars

\* What an Enter keyup is to dispatch on: the cursor is on a line n > 0 that
\* is empty, below a non-empty line that has a tracked entry
ParagraphCompleted ==
  /\ cursor > 0
  /\ doc[cursor] = <<>>
  /\ doc[cursor - 1] # <<>>
  /\ (cursor - 1) \in DOMAIN lastEditedContent

(***************************************************************************)
(* C13.  With auto-correct enabled and no correction in flight, an Enter   *)
(* keyup with the cursor on an empty line n > 0 below a non-empty line     *)
(* that has a tracked entry calls checkAndCorrectLine exactly once, for    *)
(* line n-1 with the tracked text, and removes the entry; any other Enter  *)
(* keyup calls it for no line.                                             *)
(***************************************************************************)
C13_ParagraphCompletionTrigger ==
  [][ ( settings.enableAutoCorrect /\ ~isProcessing /\ KeyUp(TRUE) )
        => IF ParagraphCompleted
             THEN /\ Cardinality(Made(log', "checkAndCorrectLine")) = 1
                  /\ Called(log', "checkAndCorrectLine", cursor - 1,
                            lastEditedContent[cursor - 1]) # {}
                  /\ (cursor - 1) \notin DOMAIN lastEditedContent'
             ELSE Made(log', "checkAndCorrectLine") = {} ]_vars

\* An Enter keyup handed the tracked text of the line above to
\* checkAndCorrectLine, which found it non-prose (the cursor-leave trigger
\* hands over prose only), and the entry is gone
C13_Witness ==
  /\ cursor > 0 /\ doc[cursor] = <<>> /\ doc[cursor - 1] # <<>>
  /\ Len(log) = 1 /\ log[1].op = "checkAndCorrectLine"
  /\ log[1].line = cursor - 1
  /\ ~isProseContent(log[1].text, settings)
  /\ (cursor - 1) \notin DOMAIN lastEditedContent
  /\ lastCursorLine = cursor

(***************************************************************************)
(* C14.  When the answer to a request is written back to its line, the     *)
(* line holds the text that was submitted for it: the user has not changed *)
(* the line while the request was outstanding.                             *)
(***************************************************************************)
C14_NoClobbering ==
  [][ \A i \in DOMAIN requests :
        LET lineNumber == requests[i].lineNumber
        IN  ( /\ log' # << >> /\ log'[1].op = "resolved"
              /\ requests' = RemoveAt(requests, i)
              /\ log'[1].line = lineNumber
              /\ Made(log', "setLine") # {} )
              => doc[lineNumber] = requests[i].text ]_vars

\* isProseContent was called with the text and returned the value
Classified(text, value) ==
  /\ Len(log) = 2
  /\ log[1].op = "isProseContent" /\ log[1].text = text
  /\ log[2].op = value

(***************************************************************************)
(* C15.  For every raw line that matches /^#+\s+/ (one or more '#'         *)
(* followed by whitespace, with or without anything after it) and every    *)
(* combination of the toggles, isProseContent returns false.               *)
(***************************************************************************)
C15_HeadingInvariance ==
  \A l \in Lines :
    MatchHeading(doc[l]) => ~Classified(doc[l], "true")

(***************************************************************************)
(* C16.  With checkCodeBlocks off, isProseContent returns false for every  *)
(* line whose raw text begins with four or more spaces or with a tab, and  *)
(* for every line whose trimmed text starts with three backticks or three  *)
(* tildes.                                                                 *)
(***************************************************************************)
C16_CodeGating ==
  \A l \in Lines :
    ( /\ ~settings.checkCodeBlocks
      /\ \/ StartsWith(doc[l], <<" ", " ", " ", " ">>)
         \/ StartsWith(doc[l], <<"\t">>)
         \/ StartsWith(Trim(doc[l]), <<Backtick, Backtick, Backtick>>)
         \/ StartsWith(Trim(doc[l]), <<"~", "~", "~">>) )
      => ~Classified(doc[l], "true")

(***************************************************************************)
(* C17.  When a trigger examines the tracked entry of a line (the callback *)
(* of a click for the remembered line the cursor has left, an Enter keyup  *)
(* for the line above the empty line of the cursor), the entry is gone     *)
(* from lastEditedContent afterwards, whether the text was dispatched or   *)
(* found non-prose.                                                        *)
(***************************************************************************)
C17_TrackedEditConsumed ==
  [][ /\ ( /\ ClickTimeoutStep
           /\ lastCursorLine # -1 /\ lastCursorLine # cursor
           /\ lastCursorLine \in DOMAIN lastEditedContent )
           => lastCursorLine \notin DOMAIN lastEditedContent'
      /\ ( /\ settings.enableAutoCorrect /\ ~isProcessing
           /\ KeyUp(TRUE)
           /\ ParagraphCompleted )
           => (cursor - 1) \notin DOMAIN lastEditedContent' ]_vars

(***************************************************************************)
(* C18.  A line that is in the cooldown set and has no tracked entry gets  *)
(* none while it stays in the set, and an automatic trigger (a step that   *)
(* calls checkAndCorrectLine) that issues a request for a line has the     *)
(* line marked checked.                                                    *)
(***************************************************************************)
C18_LineStateMachine ==
  [][ /\ \A l \in lastCheckedLines :
           l \notin DOMAIN lastEditedContent => l \notin DOMAIN lastEditedContent'
      /\ \A k \in Made(log', "checkAndCorrectLine") :
           \A c \in Made(log', "create") :
             log'[c].line = log'[k].line => log'[k].line \in lastCheckedLines' ]_vars

\* The handler run last dispatched a correction check
Dispatched == Made(log, "checkAndCorrectLine") # {}

\* Every line in the cooldown set has a pending removal timer
CooldownTimerPending ==
  \A l \in lastCheckedLines :
    \E i \in DOMAIN timers : timers[i] = [ kind |-> "cooldown", line |-> l ]

\* A step that adds a line to the cooldown set schedules one removal timer
\* for it; a removal timer that fires removes its line from the set and,
\* apart from leaving the pending timers, changes nothing else
CooldownSteps ==
  [][ /\ \A l \in lastCheckedLines' \ lastCheckedLines :
           CooldownTimers(timers') =
             Append(CooldownTimers(timers), [ kind |-> "cooldown", line |-> l ])
      /\ CooldownTimeoutStep
           => \E i \in DOMAIN timers :
                /\ timers[i].kind = "cooldown"
                /\ timers' = RemoveAt(timers, i)
                /\ lastCheckedLines' = lastCheckedLines \ { timers[i].line }
                /\ UNCHANGED << settings, openai, isProcessing, lastEditedContent,
                                lastCursorLine, processingLines,
                                processingStatusItem, doc, cursor, requests >>
    ]_vars

\* Once no further check is dispatched, the cooldown set becomes empty and
\* stays so
CooldownExpires == (<>[]~Dispatched) => <>[](lastCheckedLines = {})

(***************************************************************************)
(* C19.  Every addition of a line to lastCheckedLines schedules one        *)
(* removal timer for the line, so every line in the cooldown set has a     *)
(* pending removal timer; a timer that fires removes its own line only and *)
(* changes nothing else; and, the timers firing, the cooldown set          *)
(* eventually becomes empty if no further check is dispatched.             *)
(***************************************************************************)
C19_CooldownExpiry ==
  /\ []CooldownTimerPending
  /\ CooldownSteps
  /\ CooldownExpires

\* A line was dispatched and is in the cooldown set while the timer of an
\* earlier dispatch of the same line is still pending with its own
C19_Witness ==
  /\ lastCheckedLines # {}
  /\ \E i, j \in DOMAIN timers :
       /\ i < j
       /\ timers[i].kind = "cooldown" /\ timers[j] = timers[i]
       /\ timers[i].line \in lastCheckedLines

(***************************************************************************)
(* C20.  In every reachable state isProcessing is true exactly when a      *)
(* remote request is outstanding, and processingLines holds exactly the    *)
(* lines that have an outstanding request.                                 *)
(***************************************************************************)
C20_FlagsMatchRequests ==
  /\ isProcessing <=> requests # << >>
  /\ processingLines = { requests[i].lineNumber : i \in DOMAIN requests }

(***************************************************************************)
(* C21.  The text an automatic trigger (a step that calls                  *)
(* checkAndCorrectLine) submits in a remote request for a line is the      *)
(* text the document holds on that line when the request is issued.        *)
(***************************************************************************)
C21_SubmittedTextIsCurrent ==
  [][ Made(log', "checkAndCorrectLine") # {}
        => \A c \in Made(log', "create") : log'[c].text = doc[log'[c].line] ]_vars

====
